---- MODULE Spec2Model ----
(***************************************************************************)
(* Model of the batch-metrics variance analysis                            *)
(* (src/Analytics/duckdb_batch_variance.py) and of the parquet metadata    *)
(* catalog loader (src/Analytics/metadata_pipeline/metadata_auto_loader.py)*)
(*                                                                         *)
(* Metric values are floats in the program; the model uses integers for    *)
(* the measured quantities and exact fractions <<n, d>> (d > 0) for every  *)
(* quotient, so that a percentage is compared and summed as the program    *)
(* computes it, without rounding.                                          *)
(***************************************************************************)
EXTENDS Integers, Sequences, FiniteSets, TLC

VARIABLES
    \* ---- run_variance_analysis ----
    rows,          \* the records of batch_metrics_parquet (the view's rows)
    region,        \* the region argument ("" = no region filter)
    pc,            \* position inside run_variance_analysis
    df,            \* the joined result of the main SQL
    flagged,       \* df[df["any_metric_flag"]] with pct columns * 100
    param_groups,  \* param_var before sort_values/head (groupby order)
    param_var,     \* param_var after sort_values(...).head(5)
    model_var,     \* model_var after sort_values(...).head(5)
    result,        \* what the call returned or raised
    files,         \* charts and CSVs written under out_dir
    \* ---- metadata_auto_loader ----
    remote,        \* the parquet files in remote storage
    catalog,       \* the rows of table parquet_file_metadata
    mpc,           \* position inside the loader's driver
    tables,        \* tables still to visit in auto_update_all_metadata
    cur_table,     \* the table whose turn it is
    turn_catalog,  \* the catalog at the start of the current table's turn
    missing_dates, \* dates still to update for cur_table
    calls          \* log of update_metadata_for_table_date invocations

vars == <<rows, region, pc, df, flagged, param_groups, param_var, model_var,
          result, files, remote, catalog, mpc, tables, cur_table,
          turn_catalog, missing_dates, calls>>

varVars == <<rows, region, pc, df, flagged, param_groups, param_var,
             model_var, result, files>>

metaVars == <<remote, catalog, mpc, tables, cur_table, turn_catalog,
              missing_dates, calls>>

NULL == "NULL"

(***************************************************************************)
(* Bounds of the model.                                                    *)
(***************************************************************************)
MaxRows == 3      \* at most this many records in a free-form input
MaxFiles == 2     \* at most this many parquet files in remote storage
NumSlots == 7     \* number of group keys in a many-groups input

(***************************************************************************)
(* Program constants.                                                      *)
(***************************************************************************)
PctThresholdNum == 20    \* pct_threshold = 0.20 = 20 / 100
PctThresholdDen == 100
RawDeltaThreshold == 10  \* delta_thresholds["raw"]
CpuDeltaThreshold == 5   \* delta_thresholds["cpu"]
SecDeltaThreshold == 10  \* delta_thresholds["sec"]
PctScale == 100          \* "*= 100" and "* 100"
TopN == 5                \* head(5)

Metrics == {"raw", "cpu", "sec"}

pct_threshold == <<PctThresholdNum, PctThresholdDen>>

delta_thresholds ==
    [m \in Metrics |-> CASE m = "raw" -> RawDeltaThreshold
                         [] m = "cpu" -> CpuDeltaThreshold
                         [] m = "sec" -> SecDeltaThreshold]

(***************************************************************************)
(* Exact arithmetic on fractions <<n, d>> with d > 0, kept in lowest      *)
(* terms.                                                                  *)
(***************************************************************************)
Abs(x) == IF x < 0 THEN -x ELSE x

RECURSIVE GCD(_, _)
GCD(a, b) == IF b = 0 THEN a ELSE GCD(b, a % b)

Rat(n, d) ==
    LET g == GCD(Abs(n), Abs(d))
    IN  IF d < 0 THEN <<(-n) \div g, (-d) \div g>> ELSE <<n \div g, d \div g>>

RatAbs(q) == <<Abs(q[1]), q[2]>>

RatAdd(p, q) ==
    LET g == GCD(p[2], q[2])
    IN  Rat(p[1] * (q[2] \div g) + q[1] * (p[2] \div g),
            (p[2] \div g) * q[2])

RatEq(p, q) == Rat(p[1], p[2]) = Rat(q[1], q[2])

RatLess(p, q) ==
    LET g == GCD(p[2], q[2])
    IN  p[1] * (q[2] \div g) < q[1] * (p[2] \div g)

RatScale(q, k) == Rat(q[1] * k, q[2])

RatDivInt(q, k) == Rat(q[1], q[2] * k)

\* an undefined quotient (SQL NULL, pandas NaN) is the pair with divisor 0
NaN == <<0, 0>>

IsNaN(q) == q[2] = 0

\* equality of two values each of which is a fraction or NaN
SameValue(p, q) ==
    IF IsNaN(p) \/ IsNaN(q) THEN IsNaN(p) /\ IsNaN(q) ELSE RatEq(p, q)

(***************************************************************************)
(* Inputs of run_variance_analysis.  A record of batch_metrics_parquet has *)
(* the partition columns region and eod_date, the three grouping columns   *)
(* and the three measured quantities; "part" tells apart two records that  *)
(* agree on every column (the view is a multiset of records).              *)
(***************************************************************************)
BaselineDate == "2025-10-01"
CompareDate == "2025-10-08"
OtherDate == "2025-09-24"

Regions == {"APAC", "EMEA"}

\* parameter groups and models in their sort order (groupby sorts its keys)
ParamGroupOrder == <<"A", "B", "C", "D", "E", "F", "G", "H">>
ModelOrder == <<"m1", "m2", "m3", "m4", "m5", "m6", "m7", "m8">>

IndexOf(seq, x) == CHOOSE i \in 1..Len(seq) : seq[i] = x

MetricRow(r, d, pg, inst, mdl, raw, cpu, sec, part) ==
    [region |-> r, eod_date |-> d, parameter_group |-> pg,
     instance_name |-> inst, model_name |-> mdl,
     raw |-> raw, cpu |-> cpu, sec |-> sec, part |-> part]

Triples == {<<100, 50, 10>>, <<130, 56, 13>>, <<104, 52, 0>>}

\* free-form inputs: any few records over two regions, two dates, two keys
FreeCandidates ==
    {MetricRow(r, d, "A", i, "m1", t[1], t[2], t[3], 1) :
        r \in Regions, d \in {BaselineDate, CompareDate},
        i \in {"i1", "i2"}, t \in Triples}
    \cup {MetricRow("APAC", OtherDate, "A", "i1", "m1", 100, 50, 10, 1)}

RECURSIVE SubsetsUpTo(_, _)
SubsetsUpTo(S, n) ==
    IF n = 0 THEN {{}}
    ELSE LET P == SubsetsUpTo(S, n - 1)
         IN  P \cup {p \cup {x} : p \in P, x \in S}

FreeInputs == SubsetsUpTo(FreeCandidates, MaxRows)

\* many-groups inputs: NumSlots keys in one region, each with a baseline
\* record and a compare record; "byGroup" gives every key its own
\* parameter group (two keys per model), "byModel" gives three keys to a
\* parameter group and, but for the first two keys, every key its own model.
Half(k) == (k + 1) \div 2

Third(k) == (k + 2) \div 3

SlotGroup(layout, k) ==
    IF layout = "byGroup" THEN ParamGroupOrder[k] ELSE ParamGroupOrder[Third(k)]

SlotModel(layout, k) ==
    IF layout = "byGroup" THEN ModelOrder[Half(k)]
    ELSE ModelOrder[IF k = 1 THEN 1 ELSE k - 1]

SlotInstances == <<"i1", "i2", "i3", "i4", "i5", "i6", "i7", "i8">>

SlotBase(k) == IF k % 2 = 1 THEN <<100, 50, 10>> ELSE <<200, 100, 20>>

AllCompares == {<<130, 60, 10>>, <<70, 40, 10>>, <<104, 52, 10>>}

SlotCompares(k) ==
    IF k % 2 = 1 THEN AllCompares ELSE {<<70, 40, 10>>, <<104, 52, 10>>}

SlotRows(layout, k, c) ==
    {MetricRow("APAC", BaselineDate, SlotGroup(layout, k), SlotInstances[k],
               SlotModel(layout, k), SlotBase(k)[1], SlotBase(k)[2],
               SlotBase(k)[3], 1),
     MetricRow("APAC", CompareDate, SlotGroup(layout, k), SlotInstances[k],
               SlotModel(layout, k), c[1], c[2], c[3], 1)}

SlotInputs ==
    {UNION {SlotRows(layout, k, choice[k]) : k \in 1..NumSlots} :
        layout \in {"byGroup", "byModel"},
        choice \in {c \in [1..NumSlots -> AllCompares] :
                       \A k \in 1..NumSlots : c[k] \in SlotCompares(k)}}

(***************************************************************************)
(* The main SQL: agg_base, agg_comp, joined and the final SELECT.          *)
(***************************************************************************)
RECURSIVE SumOver(_, _)
SumOver(S, col) ==
    IF S = {} THEN 0
    ELSE LET r == CHOOSE x \in S : TRUE
         IN  r[col] + SumOver(S \ {r}, col)

\* WHERE bm.eod_date = <date> {region_filter}
Selected(rs, reg, date) ==
    {r \in rs : r.eod_date = date /\ (reg = "" \/ r.region = reg)}

GroupKeyOf(r) ==
    [region |-> r.region, parameter_group |-> r.parameter_group,
     instance_name |-> r.instance_name, model_name |-> r.model_name]

\* GROUP BY region, eod_date, parameter_group, instance_name, model_name
\* with the three SUMs
Aggregate(rs, reg, date) ==
    LET sel == Selected(rs, reg, date)
    IN  {[null |-> FALSE, key |-> k,
          sums |-> [m \in Metrics |->
                       SumOver({r \in sel : GroupKeyOf(r) = k}, m)]] :
            k \in {GroupKeyOf(r) : r \in sel}}

\* ON b.parameter_group=c.parameter_group AND b.instance_name=c.instance_name
\*    AND b.model_name=c.model_name
JoinCondition(b, c) ==
    /\ b.key.parameter_group = c.key.parameter_group
    /\ b.key.instance_name = c.key.instance_name
    /\ b.key.model_name = c.key.model_name

ZeroSums == [m \in Metrics |-> 0]

\* the all-NULL row an outer join pairs with an unmatched row
NullRow ==
    [null |-> TRUE,
     key |-> [region |-> NULL, parameter_group |-> NULL,
              instance_name |-> NULL, model_name |-> NULL],
     sums |-> ZeroSums]

\* one output row of "joined" plus the delta and pct columns of the final
\* SELECT; b or c is NullRow on the side the outer join fills.  "pair" records
\* which aggregate rows the output row was built from, so that two output
\* rows equal in every column stay two rows.
JoinedRow(b, c) ==
    LET k == IF ~b.null THEN b.key ELSE c.key      \* COALESCE(b.x, c.x)
        base == IF ~b.null THEN b.sums ELSE ZeroSums \* COALESCE(b.x, 0.0)
        comp == IF ~c.null THEN c.sums ELSE ZeroSums
    IN  [region |-> k.region, parameter_group |-> k.parameter_group,
         instance_name |-> k.instance_name, model_name |-> k.model_name,
         base |-> base, comp |-> comp,
         delta |-> [m \in Metrics |-> comp[m] - base[m]],
         pct |-> [m \in Metrics |->
                    IF base[m] = 0 THEN NaN
                    ELSE Rat(comp[m] - base[m], base[m])],
         pair |-> <<b.key.region, c.key.region>>]

\* agg_base b FULL OUTER JOIN agg_comp c ON ...
FullOuterJoin(aggBase, aggComp) ==
    {JoinedRow(b, c) : <<b, c>> \in
        {bc \in aggBase \X aggComp : JoinCondition(bc[1], bc[2])}}
    \cup {JoinedRow(b, NullRow) :
            b \in {x \in aggBase : \A c \in aggComp : ~JoinCondition(x, c)}}
    \cup {JoinedRow(NullRow, c) :
            c \in {x \in aggComp : \A b \in aggBase : ~JoinCondition(b, x)}}

MainSql(rs, reg) ==
    FullOuterJoin(Aggregate(rs, reg, BaselineDate),
                  Aggregate(rs, reg, CompareDate))

(***************************************************************************)
(* Step 3: the per-metric flags, any_metric_flag and the flagged frame.    *)
(***************************************************************************)
\* abs(pct) > pct_threshold; a comparison with NaN is False
PctLeg(pct) ==
    /\ ~IsNaN(pct)
    /\ RatLess(pct_threshold, RatAbs(pct))

DeltaLeg(delta, m) == Abs(delta) > delta_thresholds[m]

\* variant: both legs required (& where the program has |)
VarFlagBothLegs(r, m) == PctLeg(r.pct[m]) /\ DeltaLeg(r.delta[m], m)

\* df["<m>_var_flag"] = (abs(pct) > pct_threshold) | (abs(delta) > threshold)
VarFlag(r, m) == PctLeg(r.pct[m]) \/ DeltaLeg(r.delta[m], m)

\* df[[...]].any(axis=1)
AnyMetricFlag(r) == \E m \in Metrics : VarFlag(r, m)

WithFlags(r) ==
    [region |-> r.region, parameter_group |-> r.parameter_group,
     instance_name |-> r.instance_name, model_name |-> r.model_name,
     base |-> r.base, comp |-> r.comp, delta |-> r.delta, pct |-> r.pct,
     pair |-> r.pair,
     flag |-> [m \in Metrics |-> VarFlag(r, m)],
     any_metric_flag |-> AnyMetricFlag(r)]

\* flagged[[pct columns]] *= 100 (NaN stays NaN)
ScalePct(r) ==
    [r EXCEPT !.pct = [m \in Metrics |->
        IF IsNaN(r.pct[m]) THEN NaN ELSE RatScale(r.pct[m], PctScale)]]

\* flagged = df[df["any_metric_flag"]].copy(), then the rescaling
FlaggedOf(frame) == {ScalePct(r) : r \in {x \in frame : x.any_metric_flag}}

(***************************************************************************)
(* Step 4: weighted percentage change per parameter_group.                 *)
(***************************************************************************)
RECURSIVE SumCol(_, _, _)
SumCol(S, col, m) ==
    IF S = {} THEN 0
    ELSE LET r == CHOOSE x \in S : TRUE
         IN  r[col][m] + SumCol(S \ {r}, col, m)

\* variant: 0 where the program has np.nan
weighted_pct_ZeroOnEmptyBase(g, m) ==
    LET base_sum == SumCol(g, "base", m)
    IN  IF base_sum # 0
        THEN Rat(SumCol(g, "delta", m) * PctScale, base_sum)
        ELSE <<0, 1>>

\* def weighted_pct(g, base_col, delta_col)
weighted_pct(g, m) ==
    LET base_sum == SumCol(g, "base", m)
    IN  IF base_sum # 0
        THEN Rat(SumCol(g, "delta", m) * PctScale, base_sum)
        ELSE NaN

\* .abs().sum(axis=1): the sum skips NaN
AbsSkipNaN(q) == IF IsNaN(q) THEN <<0, 1>> ELSE RatAbs(q)

TotalWeightedAbs(w) ==
    RatAdd(RatAdd(AbsSkipNaN(w["raw"]), AbsSkipNaN(w["cpu"])),
           AbsSkipNaN(w["sec"]))

\* one row of param_var for the group g of flagged rows
ParamRow(pg, g) ==
    LET w == [m \in Metrics |-> weighted_pct(g, m)]
    IN  [parameter_group |-> pg,
         weighted_pct |-> w,
         total_weighted_abs |-> TotalWeightedAbs(w)]

RECURSIVE Ascending(_)
Ascending(S) ==
    IF S = {} THEN <<>>
    ELSE LET lo == CHOOSE x \in S : \A y \in S : x <= y
         IN  <<lo>> \o Ascending(S \ {lo})

\* flagged.groupby("parameter_group").apply(...).reset_index(): one row per
\* group, in the sorted order of the group keys
GroupByParam(fl) ==
    LET idx == Ascending({IndexOf(ParamGroupOrder, r.parameter_group) :
                             r \in fl})
    IN  [i \in 1..Len(idx) |->
            ParamRow(ParamGroupOrder[idx[i]],
                     {r \in fl : r.parameter_group = ParamGroupOrder[idx[i]]})]

(***************************************************************************)
(* sort_values(col, ascending=False) with the default kind ("quicksort"),  *)
(* which is not a stable sort: rows with equal keys may come out in any    *)
(* order.  NaN keys go last (na_position="last").                          *)
(***************************************************************************)
\* x must come before y
RanksBefore(x, y, col) ==
    \/ ~IsNaN(x[col]) /\ IsNaN(y[col])
    \/ ~IsNaN(x[col]) /\ ~IsNaN(y[col]) /\ RatLess(y[col], x[col])

\* variant: ascending order (sort_values without ascending=False)
RECURSIVE SortValuesAsc(_, _)
SortValuesAsc(S, col) ==
    IF S = {} THEN {<<>>}
    ELSE UNION {{<<x>> \o t : t \in SortValuesAsc(S \ {x}, col)} :
                   x \in {z \in S :
                            /\ IsNaN(z[col]) => \A y \in S : IsNaN(y[col])
                            /\ \A y \in S : ~RanksBefore(z, y, col)
                                              \/ IsNaN(y[col])}}

RECURSIVE SortValuesDesc(_, _)
SortValuesDesc(S, col) ==
    IF S = {} THEN {<<>>}
    ELSE UNION {{<<x>> \o t : t \in SortValuesDesc(S \ {x}, col)} :
                   x \in {z \in S : \A y \in S : ~RanksBefore(y, z, col)}}

Range(seq) == {seq[i] : i \in 1..Len(seq)}

\* .head(n)
HeadN(seq, n) == SubSeq(seq, 1, IF Len(seq) < n THEN Len(seq) ELSE n)

(***************************************************************************)
(* Step 7: models by CPU variance.                                         *)
(***************************************************************************)
RECURSIVE SumPct(_, _)
SumPct(S, m) ==
    IF S = {} THEN <<0, 1>>
    ELSE LET r == CHOOSE x \in S : TRUE
         IN  RatAdd(r.pct[m], SumPct(S \ {r}, m))

\* "mean" of a column: NaN entries are skipped; NaN when none is left
MeanPct(g, m) ==
    LET defined == {r \in g : ~IsNaN(r.pct[m])}
    IN  IF defined = {} THEN NaN
        ELSE RatDivInt(SumPct(defined, m), Cardinality(defined))

\* variant: the aggregates without .abs()
ModelRowSigned(mdl, g) ==
    [model_name |-> mdl,
     pct_model_cpu_hours |-> MeanPct(g, "cpu"),
     delta_model_cpu_hours |-> SumCol(g, "delta", "cpu")]

\* .agg({"pct_model_cpu_hours": "mean", "delta_model_cpu_hours": "sum"}).abs()
ModelRow(mdl, g) ==
    LET mean == MeanPct(g, "cpu")
    IN  [model_name |-> mdl,
         pct_model_cpu_hours |-> IF IsNaN(mean) THEN NaN ELSE RatAbs(mean),
         delta_model_cpu_hours |-> Abs(SumCol(g, "delta", "cpu"))]

\* flagged.groupby("model_name")[...].agg(...).abs()
GroupByModel(fl) ==
    {ModelRow(mdl, {r \in fl : r.model_name = mdl}) :
        mdl \in {r.model_name : r \in fl}}

(***************************************************************************)
(* run_variance_analysis, step by step.                                    *)
(***************************************************************************)
Running == [status |-> "running", keys |-> {}]

\* variant: the dictionary of (empty) frames where the program has {}
DictOfEmptyFrames ==
    [status |-> "returned",
     keys |-> {"flagged", "param_var", "model_var", "charts"}]

\* return {}
EmptyDict == [status |-> "returned", keys |-> {}]

\* return {"flagged": ..., "param_var": ..., "model_var": ..., "charts": ...}
ResultDict ==
    [status |-> "returned",
     keys |-> {"flagged", "param_var", "model_var", "charts"}]

Raised == [status |-> "raised", keys |-> {}]

VarIdle ==
    /\ rows = {} /\ region = "" /\ pc = "idle"
    /\ df = {} /\ flagged = {} /\ param_groups = <<>> /\ param_var = <<>>
    /\ model_var = <<>> /\ result = Running /\ files = {}

VarInit ==
    /\ \/ rows \in FreeInputs /\ region \in {"", "APAC"}
       \/ rows \in SlotInputs /\ region = "APAC"
    /\ pc = "query"
    /\ df = {} /\ flagged = {} /\ param_groups = <<>> /\ param_var = <<>>
    /\ model_var = <<>> /\ result = Running /\ files = {}

\* df = con.execute(sql).df()
ExecuteQuery ==
    /\ pc = "query"
    /\ df' = MainSql(rows, region)
    /\ pc' = "loaded"
    /\ UNCHANGED <<rows, region, flagged, param_groups, param_var, model_var,
                   result, files>>

\* if df.empty: print("No records found."); return {}
ReturnNoRecords ==
    /\ pc = "loaded"
    /\ df = {}
    /\ result' = EmptyDict
    /\ pc' = "done"
    /\ UNCHANGED <<rows, region, df, flagged, param_groups, param_var,
                   model_var, files>>

\* the four flag columns, then flagged and its rescaling
FlagVariances ==
    /\ pc = "loaded"
    /\ df # {}
    /\ df' = {WithFlags(r) : r \in df}
    /\ flagged' = FlaggedOf(df')
    /\ pc' = "rollup"
    /\ UNCHANGED <<rows, region, param_groups, param_var, model_var, result,
                   files>>

\* param_var = groupby(...).apply(...).reset_index(); total_weighted_abs;
\* sort_values(...).head(5)
WeightedAggregation ==
    /\ pc = "rollup"
    /\ flagged # {}
    /\ param_groups' = GroupByParam(flagged)
    /\ \E order \in SortValuesDesc(Range(param_groups'), "total_weighted_abs") :
          param_var' = HeadN(order, TopN)
    /\ pc' = "charts"
    /\ UNCHANGED <<rows, region, df, flagged, model_var, result, files>>

\* With no flagged row groupby(...).apply(...) calls the lambda for no group
\* and hands back an empty frame that has the columns of flagged, not the
\* weighted_pct_* columns; selecting those columns raises.
WeightedAggregationOfNothing ==
    /\ pc = "rollup"
    /\ flagged = {}
    /\ result' = Raised
    /\ pc' = "raised"
    /\ UNCHANGED <<rows, region, df, flagged, param_groups, param_var,
                   model_var, files>>

\* steps 5 and 6: the two parameter-group charts
SaveParamCharts ==
    /\ pc = "charts"
    /\ files' = files \cup {"weighted_param_variance.png",
                            "top5_param_groups_weighted.png"}
    /\ pc' = "models"
    /\ UNCHANGED <<rows, region, df, flagged, param_groups, param_var,
                   model_var, result>>

\* step 7: model_var and, when it is not empty, its chart
ModelVariance ==
    /\ pc = "models"
    /\ \E order \in SortValuesDesc(GroupByModel(flagged),
                                  "pct_model_cpu_hours") :
          model_var' = HeadN(order, TopN)
    /\ files' = IF model_var' # <<>>
                THEN files \cup {"top5_models_cpu_variance.png"}
                ELSE files
    /\ pc' = "export"
    /\ UNCHANGED <<rows, region, df, flagged, param_groups, param_var, result>>

\* step 8: the CSVs, then the returned dictionary
ExportAndReturn ==
    /\ pc = "export"
    /\ files' = files
                \cup {"flagged_variances.csv", "top5_param_groups_weighted.csv"}
                \cup (IF model_var # <<>>
                      THEN {"top5_models_cpu_variance.csv"} ELSE {})
    /\ result' = ResultDict
    /\ pc' = "done"
    /\ UNCHANGED <<rows, region, df, flagged, param_groups, param_var,
                   model_var>>

MetaIdle ==
    /\ remote = {} /\ catalog = {} /\ mpc = "idle" /\ tables = <<>>
    /\ cur_table = NULL /\ turn_catalog = {} /\ missing_dates = <<>>
    /\ calls = <<>>

Init == VarInit /\ MetaIdle

Next ==
    \/ ExecuteQuery /\ UNCHANGED metaVars
    \/ ReturnNoRecords /\ UNCHANGED metaVars
    \/ FlagVariances /\ UNCHANGED metaVars
    \/ WeightedAggregation /\ UNCHANGED metaVars
    \/ WeightedAggregationOfNothing /\ UNCHANGED metaVars
    \/ SaveParamCharts /\ UNCHANGED metaVars
    \/ ModelVariance /\ UNCHANGED metaVars
    \/ ExportAndReturn /\ UNCHANGED metaVars

Spec == Init /\ [][Next]_vars

(***************************************************************************)
(* metadata_auto_loader: remote storage and the catalog table.             *)
(*                                                                         *)
(* A remote file s3://.../hive_data/<table>/region=<region>/               *)
(* eod_date=<dir>/part-<part>.parquet is the record of its path parts, its *)
(* size and the number of column chunks parquet_metadata reports for it.   *)
(***************************************************************************)
TableOrder == <<"risk", "trades">>

\* the texts found after "eod_date=" in a path, in sort order
DateDirOrder == <<"2025-10-01", "\\dddd-\\dd-\\dd">>

FilePath(t, r, dir, part) ==
    [table |-> t, region |-> r, dir |-> dir, part |-> part]

RemoteFile(t, r, dir, part, size, chunks) ==
    [path |-> FilePath(t, r, dir, part), size |-> size, chunks |-> chunks]

RemoteCandidates ==
    {RemoteFile(TableOrder[t], "APAC", DateDirOrder[d], 1, size, chunks) :
        t \in 1..Len(TableOrder), d \in 1..Len(DateDirOrder),
        size \in {10, 20}, chunks \in {0, 1}}

\* a path names one file
RemoteStores ==
    {fs \in SubsetsUpTo(RemoteCandidates, MaxFiles) :
        \A f, g \in fs : f.path = g.path => f = g}

\* CREATE TABLE IF NOT EXISTS parquet_file_metadata (...): the columns in
\* the order of the definition; file_name is the PRIMARY KEY
CatalogRow(tn, fn, fs, rg, cn, pt, lt, nv, co, smin, smax, rgn, ed, lu) ==
    [table_name |-> tn, file_name |-> fn, file_size |-> fs, row_group |-> rg,
     column_name |-> cn, physical_type |-> pt, logical_type |-> lt,
     num_values |-> nv, compression |-> co, statistics_min |-> smin,
     statistics_max |-> smax, region |-> rgn, eod_date |-> ed,
     last_updated |-> lu]

\* a row the catalog file may hold when the program connects (the table
\* is created only IF NOT EXISTS): the columns describe the file at path,
\* recorded with size 10
StoredRow(path) ==
    CatalogRow(path.table, path, 10, 0, "c1", "INT64", "", 5, "SNAPPY",
               "0", "9", path.region, path.dir, 0)

\* the catalog file when the program connects: no row, or rows already
\* stored, at most one per file_name
StoredCatalogs ==
    {{StoredRow(path) : path \in ps} :
        ps \in SUBSET {f.path : f \in RemoteCandidates}}

(***************************************************************************)
(* Discovery helpers.                                                      *)
(***************************************************************************)
\* discover_tables: the distinct <table> of the paths under the root
discover_tables(store) ==
    LET present == {i \in 1..Len(TableOrder) :
                       \E f \in store : f.path.table = TableOrder[i]}
        idx == Ascending(present)
    IN  [i \in 1..Len(idx) |-> TableOrder[idx[i]]]

\* str.extract(r"eod_date=(\\d{4}-\\d{2}-\\d{2})"): in a raw string "\\d"
\* is the pattern for a backslash followed by the letter d, so the group
\* matches the text \dddd-\dd-\dd and no text made of digits; a path that
\* does not match gives NaN, which dropna() removes.
ExtractEodDate(dir) ==
    IF dir = "\\dddd-\\dd-\\dd" THEN {dir} ELSE {}

SortedDates(S) ==
    LET idx == Ascending({IndexOf(DateDirOrder, d) : d \in S})
    IN  [i \in 1..Len(idx) |-> DateDirOrder[idx[i]]]

\* discover_s3_eod_dates
discover_s3_eod_dates(store, table) ==
    SortedDates(UNION {ExtractEodDate(f.path.dir) :
                          f \in {g \in store : g.path.table = table}})

\* discover_existing_eod_dates
discover_existing_eod_dates(cat, table) ==
    SortedDates({c.eod_date : c \in {x \in cat : x.table_name = table}})

\* variant: every remote date, catalogued or not
AllRemoteDates(s3_dates, existing_dates) == SortedDates(Range(s3_dates))

\* sorted(list(set(s3_dates) - set(existing_dates)))
MissingDates(s3_dates, existing_dates) ==
    SortedDates(Range(s3_dates) \ Range(existing_dates))

(***************************************************************************)
(* update_metadata_for_table_date.                                         *)
(***************************************************************************)
\* glob('<root>/<table>/region=*/eod_date=<eod_date>/*.parquet')
GlobFiles(store, table, eod_date) ==
    {f \in store : f.path.table = table /\ f.path.dir = eod_date}

\* files_df.merge(existing, on="file_name", how="left") and the filter
\* file_size_existing.isna() | (file_size != file_size_existing)
NewFiles(files_df, existing) ==
    {f \in files_df :
        \/ \A c \in existing : c.file_name # f.path
        \/ \E c \in existing : c.file_name = f.path /\ c.file_size # f.size}

\* meta_df: the rows of parquet_metadata for the new files, one per column
\* chunk, in the column order of the SELECT, followed by the four added
\* columns table_name, region, eod_date, last_updated
MetaNewColumns ==
    <<"file_name", "file_size", "row_group", "column_name", "physical_type",
      "logical_type", "num_values", "compression", "statistics_min",
      "statistics_max", "table_name", "region", "eod_date", "last_updated">>

MetaRows(new_files, table, eod_date) ==
    {[file_name |-> f.path, file_size |-> f.size, row_group |-> 0,
      column_name |-> "c1", physical_type |-> "INT64", logical_type |-> "",
      num_values |-> 5, compression |-> "SNAPPY", statistics_min |-> "0",
      statistics_max |-> "9", table_name |-> table,
      region |-> f.path.region, eod_date |-> eod_date, last_updated |-> 1] :
        f \in {g \in new_files : g.chunks > 0}}

\* the columns of parquet_file_metadata in the order of CREATE TABLE, and
\* which of them are numeric (BIGINT, INTEGER)
TableColumns ==
    <<"table_name", "file_name", "file_size", "row_group", "column_name",
      "physical_type", "logical_type", "num_values", "compression",
      "statistics_min", "statistics_max", "region", "eod_date",
      "last_updated">>

NumericColumns == {"file_size", "row_group", "num_values", "last_updated"}

\* texts a cast to BIGINT or INTEGER accepts
NumericTexts == {"0", "9"}

\* INSERT ... SELECT * FROM meta_new assigns the i-th column of meta_new to
\* the i-th column of the table; a text that is no number cannot go to a
\* numeric column
CastFails(row) ==
    \E i \in 1..Len(TableColumns) :
        /\ TableColumns[i] \in NumericColumns
        /\ MetaNewColumns[i] \notin NumericColumns
        /\ row[MetaNewColumns[i]] \notin NumericTexts

\* the row as stored when every cast succeeds
PositionalRow(row) ==
    [i \in 1..Len(TableColumns) |-> row[MetaNewColumns[i]]]

\* INSERT OR REPLACE INTO parquet_file_metadata SELECT * FROM meta_new:
\* the statement fails as a whole on a failed cast; else a stored row gives
\* way to a new row with its primary key (the 2nd column)
InsertOrReplace(cat, meta_df) ==
    IF \E row \in meta_df : CastFails(row)
    THEN [raised |-> TRUE, catalog |-> cat]
    ELSE [raised |-> FALSE,
          catalog |->
             {c \in cat : \A row \in meta_df :
                             PositionalRow(row)[2] # c.file_name}
             \cup {CatalogRow(v[1], v[2], v[3], v[4], v[5], v[6], v[7], v[8],
                              v[9], v[10], v[11], v[12], v[13], v[14]) :
                      v \in {PositionalRow(row) : row \in meta_df}}]

\* the whole of update_metadata_for_table_date: what it found, how it
\* ended and the catalog it leaves
update_metadata_for_table_date(store, cat, table, eod_date) ==
    LET files_df == GlobFiles(store, table, eod_date)
        existing == {c \in cat : c.table_name = table /\ c.eod_date = eod_date}
        new_files == NewFiles(files_df, existing)
        meta_df == MetaRows(new_files, table, eod_date)
        ins == InsertOrReplace(cat, meta_df)
    IN  IF files_df = {}
        THEN [table |-> table, eod_date |-> eod_date, outcome |-> "no_files",
              new_files |-> {}, inserted |-> 0, before |-> cat, after |-> cat]
        ELSE IF new_files = {}
        THEN [table |-> table, eod_date |-> eod_date, outcome |-> "no_change",
              new_files |-> {}, inserted |-> 0, before |-> cat, after |-> cat]
        ELSE IF ins.raised
        THEN [table |-> table, eod_date |-> eod_date, outcome |-> "raised",
              new_files |-> new_files, inserted |-> 0,
              before |-> cat, after |-> cat]
        ELSE [table |-> table, eod_date |-> eod_date, outcome |-> "updated",
              new_files |-> new_files, inserted |-> Cardinality(meta_df),
              before |-> cat, after |-> ins.catalog]

(***************************************************************************)
(* The loader's drivers: auto_update_all_metadata, and a caller that runs  *)
(* update_metadata_for_table_date twice in a row for one table and date.   *)
(***************************************************************************)
MetaInit ==
    /\ remote \in RemoteStores
    /\ catalog \in StoredCatalogs
    /\ mpc = "connected"
    /\ tables = <<>> /\ cur_table = NULL /\ turn_catalog = {}
    /\ missing_dates = <<>> /\ calls = <<>>

\* tables = discover_tables(con)
DiscoverTables ==
    /\ mpc = "connected"
    /\ tables' = discover_tables(remote)
    /\ mpc' = "tables"
    /\ UNCHANGED <<remote, catalog, cur_table, turn_catalog, missing_dates,
                   calls>>

\* one turn of "for table in tables" that ends at "continue"
TableUpToDate ==
    /\ mpc = "tables"
    /\ tables # <<>>
    /\ MissingDates(discover_s3_eod_dates(remote, Head(tables)),
                    discover_existing_eod_dates(catalog, Head(tables))) = <<>>
    /\ cur_table' = Head(tables)
    /\ tables' = Tail(tables)
    /\ turn_catalog' = catalog
    /\ missing_dates' = <<>>
    /\ UNCHANGED <<remote, catalog, mpc, calls>>

\* one turn of "for table in tables" that finds new dates
TableHasMissingDates ==
    /\ mpc = "tables"
    /\ tables # <<>>
    /\ missing_dates' =
          MissingDates(discover_s3_eod_dates(remote, Head(tables)),
                       discover_existing_eod_dates(catalog, Head(tables)))
    /\ missing_dates' # <<>>
    /\ cur_table' = Head(tables)
    /\ tables' = Tail(tables)
    /\ turn_catalog' = catalog
    /\ mpc' = "dates"
    /\ UNCHANGED <<remote, catalog, calls>>

\* "for eod_date in missing_dates: update_metadata_for_table_date(...)";
\* an exception of the INSERT ends auto_update_all_metadata
UpdateMissingDate ==
    /\ mpc = "dates"
    /\ LET run == update_metadata_for_table_date(remote, catalog, cur_table,
                                                 Head(missing_dates))
       IN  /\ calls' = Append(calls, run)
           /\ catalog' = run.after
           /\ missing_dates' = Tail(missing_dates)
           /\ mpc' = IF run.outcome = "raised" THEN "raised"
                     ELSE IF Tail(missing_dates) = <<>> THEN "tables"
                     ELSE "dates"
    /\ UNCHANGED <<remote, tables, cur_table, turn_catalog>>

\* print("Metadata fully synchronized!")
Synchronized ==
    /\ mpc = "tables"
    /\ tables = <<>>
    /\ mpc' = "synchronized"
    /\ UNCHANGED <<remote, catalog, tables, cur_table, turn_catalog,
                   missing_dates, calls>>

\* a caller's first update_metadata_for_table_date(con, table, eod_date)
FirstRun(table, eod_date) ==
    /\ mpc = "connected"
    /\ LET run == update_metadata_for_table_date(remote, catalog, table,
                                                 eod_date)
       IN  /\ calls' = <<run>>
           /\ catalog' = run.after
    /\ mpc' = "once"
    /\ UNCHANGED <<remote, tables, cur_table, turn_catalog, missing_dates>>

\* the same call again, the remote files being what they were
SecondRun ==
    /\ mpc = "once"
    /\ LET run == update_metadata_for_table_date(remote, catalog,
                                                 calls[1].table,
                                                 calls[1].eod_date)
       IN  /\ calls' = Append(calls, run)
           /\ catalog' = run.after
    /\ mpc' = "twice"
    /\ UNCHANGED <<remote, tables, cur_table, turn_catalog, missing_dates>>

InitMeta == MetaInit /\ VarIdle

NextMeta ==
    \/ DiscoverTables /\ UNCHANGED varVars
    \/ TableUpToDate /\ UNCHANGED varVars
    \/ TableHasMissingDates /\ UNCHANGED varVars
    \/ UpdateMissingDate /\ UNCHANGED varVars
    \/ Synchronized /\ UNCHANGED varVars
    \/ \E t \in Range(TableOrder), d \in Range(DateDirOrder) :
          FirstRun(t, d) /\ UNCHANGED varVars
    \/ SecondRun /\ UNCHANGED varVars

SpecMeta == InitMeta /\ [][NextMeta]_vars

(***************************************************************************)
(* Properties of the metadata loader.                                      *)
(***************************************************************************)
\* the catalog without its last_updated column
SansLastUpdated(cat) == {[c EXCEPT !.last_updated = 0] : c \in cat}

\* C9: running update_metadata_for_table_date twice in a row with the
\* remote files unchanged leaves the catalog after the second run equal to
\* the catalog after the first (ignoring last_updated), and the second run
\* finds no new or changed files and inserts nothing.
C9_IdempotentUpsert ==
    mpc = "twice" =>
        /\ SansLastUpdated(calls[2].after) = SansLastUpdated(calls[1].after)
        /\ calls[2].new_files = {}
        /\ calls[2].inserted = 0
        /\ calls[2].outcome \in {"no_files", "no_change"}

InAutoUpdate == mpc \in {"tables", "dates", "raised", "synchronized"}

RowsOfDates(cat, table, dates) ==
    {c \in cat : c.table_name = table /\ c.eod_date \in dates}

CataloguedDates(cat, table) ==
    {c.eod_date : c \in {x \in cat : x.table_name = table}}

Queried == pc \in {"loaded", "rollup", "charts", "models", "export",
                   "done", "raised"}

Flagged == pc \in {"rollup", "charts", "models", "export", "done", "raised"}

RolledUp == pc \in {"charts", "models", "export", "done"}

ModelsDone == pc \in {"export", "done"}

Finished == pc \in {"done", "raised"}

BaselineKeys == {a.key : a \in Aggregate(rows, region, BaselineDate)}

CompareKeys == {a.key : a \in Aggregate(rows, region, CompareDate)}

RowsOfKey(k) == {r \in df : GroupKeyOf(r) = k}

\* C1: every GroupKey (region, parameter_group, instance_name, model_name)
\* of the baseline aggregate or of the compare aggregate has exactly one
\* row in the joined output, whatever the region filter.
C1_JoinCompleteness ==
    Queried =>
        \A k \in BaselineKeys \cup CompareKeys :
            Cardinality(RowsOfKey(k)) = 1

RowId(r) ==
    <<r.region, r.parameter_group, r.instance_name, r.model_name, r.pair>>

\* C2: each per-metric flag is true exactly when |pct| > pct_threshold or
\* |delta| > the metric's delta threshold, an undefined pct never
\* satisfying the percentage leg (so a zero-base metric is flagged only
\* through its delta); any_metric_flag is the OR of the three flags and the
\* flagged set is exactly the joined rows whose any_metric_flag is true.
C2_ThresholdOrSemantics ==
    Flagged =>
        /\ \A r \in df : \A m \in Metrics :
              /\ r.flag[m] <=>
                    \/ /\ r.pct[m][2] # 0
                       /\ Abs(r.pct[m][1]) * PctThresholdDen
                             > PctThresholdNum * r.pct[m][2]
                    \/ Abs(r.delta[m]) > delta_thresholds[m]
              /\ r.base[m] = 0 =>
                    (r.flag[m] <=> Abs(r.delta[m]) > delta_thresholds[m])
        /\ \A r \in df :
              r.any_metric_flag <=>
                  (r.flag["raw"] \/ r.flag["cpu"] \/ r.flag["sec"])
        /\ {RowId(r) : r \in flagged}
              = {RowId(r) : r \in {x \in df : x.any_metric_flag}}

\* a joined row flagged on the delta leg alone with a zero base, one
\* flagged on the percentage leg alone, and a zero-base metric not flagged
C2_Witness ==
    /\ pc = "rollup"
    /\ \E r \in df : \E m \in Metrics :
          r.base[m] = 0 /\ r.flag[m]
    /\ \E r \in df : \E m \in Metrics :
          r.base[m] = 0 /\ r.delta[m] # 0 /\ ~r.flag[m]
    /\ \E r \in df : \E m \in Metrics :
          r.flag[m] /\ Abs(r.delta[m]) <= delta_thresholds[m]

FlaggedRowsOfGroup(pg) ==
    {r \in df : r.any_metric_flag /\ r.parameter_group = pg}

\* C3: for every parameter_group with a flagged row and each metric,
\* weighted_pct is (sum of delta over the group's flagged rows) / (sum of
\* base over them) x 100 when the base sum is nonzero, undefined when it
\* is zero; unflagged rows enter neither sum.
C3_WeightedRollup ==
    RolledUp =>
        /\ {param_groups[i].parameter_group : i \in 1..Len(param_groups)}
              = {r.parameter_group : r \in {x \in df : x.any_metric_flag}}
        /\ \A i, j \in 1..Len(param_groups) :
              param_groups[i].parameter_group = param_groups[j].parameter_group
                  => i = j
        /\ \A i \in 1..Len(param_groups) : \A m \in Metrics :
              LET g == FlaggedRowsOfGroup(param_groups[i].parameter_group)
                  w == param_groups[i].weighted_pct[m]
                  bs == SumCol(g, "base", m)
                  ds == SumCol(g, "delta", m)
              IN  IF bs # 0
                  THEN w[2] # 0 /\ w[1] * bs = PctScale * ds * w[2]
                  ELSE w[2] = 0

\* a group with two flagged rows and an unflagged row of nonzero delta
C3_Witness ==
    /\ RolledUp
    /\ \E i \in 1..Len(param_groups) :
          LET pg == param_groups[i].parameter_group
          IN  /\ Cardinality(FlaggedRowsOfGroup(pg)) >= 2
              /\ \E r \in df : /\ r.parameter_group = pg
                               /\ ~r.any_metric_flag
                               /\ r.delta["raw"] # 0
              /\ param_groups[i].weighted_pct["raw"][2] # 0

\* C4: a GroupKey present only in the compare snapshot has a joined row
\* with base = 0.0, delta = comp and pct undefined on all three metrics; one
\* present only in the baseline has comp = 0.0 and delta = -base; in every
\* joined row pct is defined exactly when base is nonzero and then equals
\* (comp - base) / base.
C4_ZeroFill ==
    Queried =>
        /\ \A k \in CompareKeys \ BaselineKeys :
              /\ RowsOfKey(k) # {}
              /\ \A r \in RowsOfKey(k) : \A m \in Metrics :
                    /\ r.base[m] = 0
                    /\ r.delta[m] = r.comp[m]
                    /\ r.pct[m][2] = 0
        /\ \A k \in BaselineKeys \ CompareKeys :
              /\ RowsOfKey(k) # {}
              /\ \A r \in RowsOfKey(k) : \A m \in Metrics :
                    /\ r.comp[m] = 0
                    /\ r.delta[m] = -r.base[m]
        /\ \A r \in df : \A m \in Metrics :
              /\ r.pct[m][2] # 0 <=> r.base[m] # 0
              /\ r.base[m] # 0 =>
                    r.pct[m][1] * r.base[m]
                        = (r.comp[m] - r.base[m]) * r.pct[m][2]

\* C5: when the joined result has rows and none is flagged, the run
\* completes without raising and both roll-ups are empty.
C5_NothingFlaggedCompletes ==
    (Finished /\ df # {} /\ flagged = {}) =>
        /\ result.status = "returned"
        /\ param_var = <<>>
        /\ model_var = <<>>

NoSourceRows ==
    ~\E r \in rows :
        /\ r.eod_date \in {BaselineDate, CompareDate}
        /\ region = "" \/ r.region = region

\* C8: with zero source rows for both dates the run returns the empty
\* value without raising and writes no chart or CSV, and that value is
\* never what a run that found rows ends with.
C8_EmptyInput ==
    Finished =>
        /\ NoSourceRows =>
              /\ result.status = "returned"
              /\ result.keys = {}
              /\ files = {}
        /\ ~NoSourceRows =>
              ~(result.status = "returned" /\ result.keys = {})

\* rows exist in the store, none for the requested dates and region
C8_Witness ==
    /\ pc = "done"
    /\ rows # {}
    /\ NoSourceRows
    /\ result.status = "returned"
    /\ result.keys = {}

\* the stable descending sort: rows with equal keys keep the order they
\* have in seq
StableSortDesc(seq, col) ==
    CHOOSE order \in SortValuesDesc(Range(seq), col) :
        \A i, j \in 1..Len(order) :
            (i < j /\ RatEq(order[i][col], order[j][col]))
                => (CHOOSE a \in 1..Len(seq) : seq[a] = order[i])
                     < (CHOOSE b \in 1..Len(seq) : seq[b] = order[j])

\* C6: param_var is the first 5 rows of the groups sorted by
\* total_weighted_abs descending with a stable sort: groups of equal
\* total_weighted_abs keep the relative order of the unsorted group list.
C6_StableTop5 ==
    RolledUp =>
        param_var = HeadN(StableSortDesc(param_groups, "total_weighted_abs"),
                          TopN)

AbsOrZero(q) == IF q[2] = 0 THEN <<0, 1>> ELSE <<Abs(q[1]), q[2]>>

\* C6 as amended: param_var holds min(5, number of groups) distinct rows of
\* the group list, each with total_weighted_abs = |raw| + |cpu| + |sec| of
\* its weighted percentages (an undefined one counting 0), in
\* non-increasing order of total_weighted_abs, and no group left out has a
\* larger total_weighted_abs than a group kept; the order among groups of
\* equal total_weighted_abs is not determined.
C6_Top5Descending ==
    RolledUp =>
        /\ Len(param_var)
              = (IF Len(param_groups) < 5 THEN Len(param_groups) ELSE 5)
        /\ Range(param_var) \subseteq Range(param_groups)
        /\ \A i, j \in 1..Len(param_var) :
              i < j => /\ param_var[i] # param_var[j]
                       /\ ~RatLess(param_var[i].total_weighted_abs,
                                   param_var[j].total_weighted_abs)
        /\ \A x \in Range(param_groups) \ Range(param_var) :
              \A i \in 1..Len(param_var) :
                  ~RatLess(param_var[i].total_weighted_abs,
                           x.total_weighted_abs)
        /\ \A x \in Range(param_groups) :
              RatEq(x.total_weighted_abs,
                    RatAdd(AbsOrZero(x.weighted_pct["raw"]),
                           RatAdd(AbsOrZero(x.weighted_pct["cpu"]),
                                  AbsOrZero(x.weighted_pct["sec"]))))

\* more than 5 groups, two kept groups tie, and a group with a strictly
\* smaller total_weighted_abs is cut
C6_Witness ==
    /\ RolledUp
    /\ Len(param_groups) > TopN
    /\ \E i, j \in 1..Len(param_var) :
          /\ i < j
          /\ RatEq(param_var[i].total_weighted_abs,
                   param_var[j].total_weighted_abs)
    /\ \E x \in Range(param_groups) \ Range(param_var) :
          RatLess(x.total_weighted_abs, param_var[1].total_weighted_abs)

\* the flagged rows of a model, as the rows of df with the flag set
FlaggedRowsOfModel(mdl) ==
    {r \in df : r.any_metric_flag /\ r.model_name = mdl}

\* percentages of the flagged frame are in units of 1/100
PctCpu100(r) == Rat(r.pct["cpu"][1] * 100, r.pct["cpu"][2])

RECURSIVE SumOfPct(_, _)
SumOfPct(S, absolute) ==
    IF S = {} THEN <<0, 1>>
    ELSE LET r == CHOOSE x \in S : TRUE
             v == IF absolute THEN RatAbs(PctCpu100(r)) ELSE PctCpu100(r)
         IN  RatAdd(v, SumOfPct(S \ {r}, absolute))

RECURSIVE SumOfDeltaCpu(_, _)
SumOfDeltaCpu(S, absolute) ==
    IF S = {} THEN 0
    ELSE LET r == CHOOSE x \in S : TRUE
             v == IF absolute THEN Abs(r.delta["cpu"]) ELSE r.delta["cpu"]
         IN  v + SumOfDeltaCpu(S \ {r}, absolute)

DefinedPctRows(g) == {r \in g : r.pct["cpu"][2] # 0}

\* C7: the model roll-up holds the mean of |pct_cpu| over the model's
\* flagged rows (absolute value per row, before averaging) and the sum of
\* |delta_cpu| (absolute value per row, before summing).
C7_MeanOfAbs ==
    ModelsDone =>
        \A i \in 1..Len(model_var) :
            LET g == FlaggedRowsOfModel(model_var[i].model_name)
                d == DefinedPctRows(g)
            IN  /\ model_var[i].delta_model_cpu_hours = SumOfDeltaCpu(g, TRUE)
                /\ d # {} =>
                      RatEq(model_var[i].pct_model_cpu_hours,
                            RatDivInt(SumOfPct(d, TRUE), Cardinality(d)))

ModelRanksBefore(po, qo) ==
    \/ po[2] # 0 /\ qo[2] = 0
    \/ po[2] # 0 /\ qo[2] # 0 /\ RatLess(qo, po)

FlaggedModels == {r.model_name : r \in {x \in df : x.any_metric_flag}}

ExpectedMeanAbs(mdl) ==
    LET d == DefinedPctRows(FlaggedRowsOfModel(mdl))
    IN  IF d = {} THEN <<0, 0>>
        ELSE RatAbs(RatDivInt(SumOfPct(d, FALSE), Cardinality(d)))

\* C7 as amended: the model roll-up holds, for a model with a flagged row,
\* the absolute value of the mean of pct_cpu (x 100) over the model's
\* flagged rows that have a defined pct_cpu (undefined when there is none)
\* and the absolute value of the sum of delta_cpu over the model's flagged
\* rows; it keeps min(5, number of such models) models, one row each, in
\* non-increasing order of that mean with undefined means last, and no
\* model left out ranks before a model kept.
C7_AbsOfMean ==
    ModelsDone =>
        /\ Len(model_var)
              = (IF Cardinality(FlaggedModels) < 5
                 THEN Cardinality(FlaggedModels) ELSE 5)
        /\ \A i \in 1..Len(model_var) :
              /\ model_var[i].model_name \in FlaggedModels
              /\ model_var[i].delta_model_cpu_hours
                    = Abs(SumOfDeltaCpu(
                              FlaggedRowsOfModel(model_var[i].model_name),
                              FALSE))
              /\ SameValue(model_var[i].pct_model_cpu_hours,
                           ExpectedMeanAbs(model_var[i].model_name))
        /\ \A i, j \in 1..Len(model_var) :
              i < j =>
                  /\ model_var[i].model_name # model_var[j].model_name
                  /\ ~ModelRanksBefore(model_var[j].pct_model_cpu_hours,
                                       model_var[i].pct_model_cpu_hours)
        /\ \A mdl \in FlaggedModels
                       \ {model_var[i].model_name : i \in 1..Len(model_var)} :
              \A i \in 1..Len(model_var) :
                  ~ModelRanksBefore(ExpectedMeanAbs(mdl),
                                    model_var[i].pct_model_cpu_hours)

\* more than 5 models with a flagged row, and a kept model whose flagged
\* rows have pct_cpu of both signs
C7_Witness ==
    /\ ModelsDone
    /\ Cardinality(FlaggedModels) > TopN
    /\ \E i \in 1..Len(model_var) :
          LET g == FlaggedRowsOfModel(model_var[i].model_name)
          IN  /\ \E r \in g : r.pct["cpu"][2] # 0 /\ r.pct["cpu"][1] > 0
              /\ \E r \in g : r.pct["cpu"][2] # 0 /\ r.pct["cpu"][1] < 0

====
